---- MODULE Spec2Model ----
(***************************************************************************)
(* Tic-tac-toe (src/src/main.rs): the Game engine (board, last move, win    *)
(* and draw detection), the console loop play_game that feeds it, the       *)
(* parsing of a line of input into a Square, and the rendering of a Game.   *)
(*                                                                         *)
(* Strings are sequences of one-character strings, so that trimming,        *)
(* lower-casing, pushing and popping are computed as the code computes      *)
(* them.  An Option is its payload, or None.                                *)
(***************************************************************************)
EXTENDS Integers, Sequences, FiniteSets, TLC

VARIABLES
    board,          \* Game.board : Square -> Option<Player>
    last,           \* Game.last  : Option<Square>
    i,              \* play_game's turn counter
    player,         \* play_game's local: the player being prompted
    pc,             \* where the program waits or has stopped
    line,           \* the line most recently read from stdin (raw)
    buf,            \* from_input's buffer: that line after trim()
    play_outcome,   \* the PlayOutcome of the latest execute call
    outcome,        \* the GameOutcome returned by play_game
    event,          \* what the latest step did with the line it read
    rejects,        \* history: the number of lines rejected so far
    movers          \* history: the players of the execute calls, in order

vars == <<board, last, i, player, pc, line, buf, play_outcome, outcome,
          event, rejects, movers>>

----------------------------------------------------------------------------
(* Bounds *)

\* most blanks put in front of the text of an input line
MaxPad == 1

\* most lines rejected in one run
MaxRejects == 2

\* most moves applied in a run that keeps the lines read
MaxMoves == 2

----------------------------------------------------------------------------
(* Types *)

None == "None"

\* enum Square, in its derived Ord (declaration) order
SquareOrder == <<"A", "B", "C", "D", "E", "F", "G", "H", "I">>

Square == {SquareOrder[k] : k \in 1..Len(SquareOrder)}

\* enum Player
Player == {"X", "O"}

\* play_outcome and outcome before they are assigned
NoOutcome == <<"None">>

\* enum PlayOutcome
Win(p) == <<"Win", p>>

Draw == <<"Draw">>

NextTurn(p) == <<"Next", p>>

\* enum GameOutcome
Winner(p) == <<"Winner", p>>

GameDraw == <<"GameDraw">>

\* WINNERS with the G of the anti-diagonal mistyped as H
WINNERS_MistypedDiagonal == << <<"A", "B", "C">>,
                               <<"D", "E", "F">>,
                               <<"G", "H", "I">>,
                               <<"C", "E", "H">>,
                               <<"A", "E", "I">>,
                               <<"A", "D", "G">>,
                               <<"B", "E", "H">>,
                               <<"C", "F", "I">> >>

\* Square::WINNERS
WINNERS == << <<"A", "B", "C">>,
              <<"D", "E", "F">>,
              <<"G", "H", "I">>,
              <<"C", "E", "G">>,
              <<"A", "E", "I">>,
              <<"A", "D", "G">>,
              <<"B", "E", "H">>,
              <<"C", "F", "I">> >>

----------------------------------------------------------------------------
(* Strings *)

Whitespace == {" ", "\n", "\t"}

\* char::to_lowercase on the characters that occur
LowerOf == [A |-> "a", B |-> "b", C |-> "c", D |-> "d", E |-> "e",
            F |-> "f", G |-> "g", H |-> "h", I |-> "i", J |-> "j"]

to_lowercase_char(c) == IF c \in DOMAIN LowerOf THEN LowerOf[c] ELSE c

\* str::to_lowercase
to_lowercase(s) == [k \in 1..Len(s) |-> to_lowercase_char(s[k])]

RECURSIVE trim_start(_)
trim_start(s) ==
    IF s # <<>> /\ Head(s) \in Whitespace THEN trim_start(Tail(s)) ELSE s

RECURSIVE trim_end(_)
trim_end(s) ==
    IF s # <<>> /\ s[Len(s)] \in Whitespace
    THEN trim_end(SubSeq(s, 1, Len(s) - 1))
    ELSE s

\* str::trim
trim(s) == trim_end(trim_start(s))

\* <Square as Display>::fmt : the Debug name of the variant
Square_fmt(sq) == <<sq>>

\* <Player as Display>::fmt : the Debug name of the variant
Player_fmt(p) == <<p>>

----------------------------------------------------------------------------
(* Parsing *)

Ok(v) == <<"Ok", v>>

Err == <<"Err", "InvalidInput">>

\* from_str without the to_lowercase
from_str_CaseSensitive(s) ==
    LET t == trim(s) IN
    CASE t = <<"a">> -> Ok("A")
      [] t = <<"b">> -> Ok("B")
      [] t = <<"c">> -> Ok("C")
      [] t = <<"d">> -> Ok("D")
      [] t = <<"e">> -> Ok("E")
      [] t = <<"f">> -> Ok("F")
      [] t = <<"g">> -> Ok("G")
      [] t = <<"h">> -> Ok("H")
      [] t = <<"i">> -> Ok("I")
      [] OTHER       -> Err

\* <Square as FromStr>::from_str
from_str(s) ==
    LET t == trim(to_lowercase(s)) IN
    CASE t = <<"a">> -> Ok("A")
      [] t = <<"b">> -> Ok("B")
      [] t = <<"c">> -> Ok("C")
      [] t = <<"d">> -> Ok("D")
      [] t = <<"e">> -> Ok("E")
      [] t = <<"f">> -> Ok("F")
      [] t = <<"g">> -> Ok("G")
      [] t = <<"h">> -> Ok("H")
      [] t = <<"i">> -> Ok("I")
      [] OTHER       -> Err

----------------------------------------------------------------------------
(* Game engine *)

\* new with the entry of the last square left out
new_MissingSquare ==
    [board |-> [sq \in Square \ {SquareOrder[Len(SquareOrder)]} |-> None],
     last |-> None]

\* Game::new
new == [board |-> [sq \in Square |-> None], last |-> None]

\* is_complete with any() for all()
is_complete_Any(b) == \E sq \in DOMAIN b : b[sq] # None

\* Game::is_complete
is_complete(b) == \A sq \in DOMAIN b : b[sq] # None

\* square_occupied that reports every square free
square_occupied_Never(b, sq) == FALSE

\* Game::square_occupied
square_occupied(b, sq) == b[sq] # None

\* Game::player_squares
player_squares(b, p) == {sq \in DOMAIN b : b[sq] = p}

\* Game::has_winner
has_winner(b) ==
    LET x_squares == player_squares(b, "X")
        y_squares == player_squares(b, "O")
    IN  Cardinality({k \in 1..Len(WINNERS) :
            \/ \A j \in 1..3 : WINNERS[k][j] \in x_squares
            \/ \A j \in 1..3 : WINNERS[k][j] \in y_squares}) > 0

\* Game::is_draw
is_draw(b) == is_complete(b) /\ ~has_winner(b)

\* next that returns the player itself
Player_next_Same(p) == p

\* Player::next
Player_next(p) == IF p = "X" THEN "O" ELSE "X"

\* insert under the first key instead of the given one
insert_FirstKey(b, sq, v) == [b EXCEPT ![SquareOrder[1]] = v]

\* BTreeMap::insert on a key that is present
insert(b, sq, v) == [b EXCEPT ![sq] = v]

\* execute that does not record the square as the last move
execute_NoLast(g, p, sq) ==
    LET b == insert(g.board, sq, p) IN
    [board |-> b,
     last  |-> g.last,
     ret   |-> IF has_winner(b) THEN Win(p)
               ELSE IF is_draw(b) THEN Draw
               ELSE NextTurn(Player_next(p))]

\* execute that reports the win for the player who moves next
execute_WinForNext(g, p, sq) ==
    LET b == insert(g.board, sq, p) IN
    [board |-> b,
     last  |-> sq,
     ret   |-> IF has_winner(b) THEN Win(Player_next(p))
               ELSE IF is_draw(b) THEN Draw
               ELSE NextTurn(Player_next(p))]

\* execute that tests is_complete before has_winner
execute_DrawFirst(g, p, sq) ==
    LET b == insert(g.board, sq, p) IN
    [board |-> b,
     last  |-> sq,
     ret   |-> IF is_complete(b) THEN Draw
               ELSE IF has_winner(b) THEN Win(p)
               ELSE NextTurn(Player_next(p))]

\* Game::execute : the game after the call, and the value returned
execute(g, p, sq) ==
    LET b == insert(g.board, sq, p) IN
    [board |-> b,
     last  |-> sq,
     ret   |-> IF has_winner(b) THEN Win(p)
               ELSE IF is_draw(b) THEN Draw
               ELSE NextTurn(Player_next(p))]

----------------------------------------------------------------------------
(* Rendering *)

line_separator == <<"-", "-", "-", "|", "-", "-", "-", "|", "-", "-", "-", "\n">>

\* Cell without the to_lowercase of an empty square's label
Cell_UpperCase(g, sq) ==
    IF g.board[sq] # None
    THEN IF g.last # None
         THEN IF g.last = sq
              THEN <<":">> \o Player_fmt(g.board[sq]) \o <<":", "|">>
              ELSE <<" ">> \o Player_fmt(g.board[sq]) \o <<" ", "|">>
         ELSE <<" ">> \o Player_fmt(g.board[sq]) \o <<" ", "|">>
    ELSE <<" ">> \o Square_fmt(sq) \o <<" ", "|">>

\* the text pushed for one board entry
Cell(g, sq) ==
    IF g.board[sq] # None
    THEN IF g.last # None
         THEN IF g.last = sq
              THEN <<":">> \o Player_fmt(g.board[sq]) \o <<":", "|">>
              ELSE <<" ">> \o Player_fmt(g.board[sq]) \o <<" ", "|">>
         ELSE <<" ">> \o Player_fmt(g.board[sq]) \o <<" ", "|">>
    ELSE <<" ">> \o to_lowercase(Square_fmt(sq)) \o <<" ", "|">>

\* String::pop
pop(s) == IF s = <<>> THEN s ELSE SubSeq(s, 1, Len(s) - 1)

\* the body of the for loop, entries index+1 .. 9 appended to s
RECURSIVE FmtLoop(_, _, _)
FmtLoop(g, s, index) ==
    IF index >= Len(SquareOrder) THEN s
    ELSE LET s1 == s \o Cell(g, SquareOrder[index + 1])
             s2 == IF (index + 1) % 3 = 0
                   THEN pop(s1) \o <<"\n">> \o line_separator
                   ELSE s1
         IN  FmtLoop(g, s2, index + 1)

EndsWith(s, pat) ==
    /\ Len(s) >= Len(pat)
    /\ SubSeq(s, Len(s) - Len(pat) + 1, Len(s)) = pat

\* str::trim_end_matches
RECURSIVE trim_end_matches(_, _)
trim_end_matches(s, pat) ==
    IF pat # <<>> /\ EndsWith(s, pat)
    THEN trim_end_matches(SubSeq(s, 1, Len(s) - Len(pat)), pat)
    ELSE s

\* <Game as Display>::fmt
Game_fmt(g) == trim_end_matches(FmtLoop(g, <<>>, 0), line_separator)

\* <GameOutcome as Display>::fmt
GameOutcome_fmt(o) ==
    IF o = GameDraw THEN <<"D", "r", "a", "w">>
    ELSE Player_fmt(o[2]) \o <<" ", "w", "i", "n", "s", "!">>

----------------------------------------------------------------------------
(* Input *)

Pad(n) == [k \in 1..n |-> " "]

LowerLetters == {"a", "b", "c", "d", "e", "f", "g", "h", "i"}

UpperLetters == {"A", "B", "C", "D", "E", "F", "G", "H", "I"}

\* what a player may type before pressing return
Texts == {<<c>> : c \in LowerLetters \cup UpperLetters} \cup
         {<<>>, <<"j">>, <<"J">>, <<"1">>, <<"a", "b">>, <<"a", " ", "b">>,
          <<"c", " ">>, <<"D", "\t">>}

\* the lines read_line can deliver: blanks, text, newline
Lines == {Pad(l) \o t \o <<"\n">> : l \in 0..MaxPad, t \in Texts}

\* the lines typed during a whole game: one spelling of each square, and
\* some that name no square
GameLines == {<<c, "\n">> : c \in LowerLetters} \cup
             {<<" ", "E", "\n">>, <<"\n">>, <<"j", "\n">>}

\* Square::from_input on each line that can be read: trim, then from_str
Parsed == [ln \in Lines \cup GameLines |-> from_str(trim(ln))]

\* Square::from_input, one read: Ok(square), or Err and another read
from_input(ln) == Parsed[ln]

----------------------------------------------------------------------------
(* The program *)

\* PlayerOfTurn that starts with O
PlayerOfTurn_OFirst(n) == IF n % 2 = 0 THEN "O" ELSE "X"

\* play_game: the player of turn i
PlayerOfTurn(n) == IF n % 2 = 0 THEN "X" ELSE "O"

\* Breaks with the Win arm counting the turn instead of breaking
Breaks_DrawOnly(ret) == ret = Draw

\* Breaks with the Draw arm counting the turn instead of breaking
Breaks_WinOnly(ret) == ret[1] = "Win"

\* play_game: the arms of the match on play_outcome that break
Breaks(ret) == ret[1] # "Next"

\* play_game: the GameOutcome the loop breaks with
GameOutcomeOf(ret) == IF ret = Draw THEN GameDraw ELSE Winner(ret[2])

Game == [board |-> board, last |-> last]

Init ==
    /\ board = new.board
    /\ last = new.last
    /\ i = 0
    /\ player = PlayerOfTurn(0)
    /\ pc = "play_game"
    /\ line = <<>>
    /\ buf = <<>>
    /\ play_outcome = NoOutcome
    /\ outcome = NoOutcome
    /\ event = "new"
    /\ rejects = 0
    /\ movers = <<>>

Reading == pc \in {"play_game", "from_input"}

\* Square::from_input, Err arm: complain and read again
Invalid(ln) ==
    /\ Reading
    /\ rejects < MaxRejects
    /\ from_input(ln) = Err
    /\ event' = "invalid"
    /\ rejects' = rejects + 1
    /\ pc' = "from_input"
    /\ UNCHANGED <<board, last, i, player, play_outcome, outcome, movers>>

\* Occupied that counts the rejected request as a turn
Occupied_ConsumesTurn(ln) ==
    /\ Reading
    /\ rejects < MaxRejects
    /\ from_input(ln) # Err
    /\ square_occupied(board, from_input(ln)[2])
    /\ event' = "occupied"
    /\ rejects' = rejects + 1
    /\ i' = i + 1
    /\ player' = PlayerOfTurn(i')
    /\ pc' = "play_game"
    /\ UNCHANGED <<board, last, play_outcome, outcome, movers>>

\* play_game: the square read is occupied; continue
Occupied(ln) ==
    /\ Reading
    /\ rejects < MaxRejects
    /\ from_input(ln) # Err
    /\ square_occupied(board, from_input(ln)[2])
    /\ event' = "occupied"
    /\ rejects' = rejects + 1
    /\ player' = PlayerOfTurn(i)
    /\ pc' = "play_game"
    /\ UNCHANGED <<board, last, i, play_outcome, outcome, movers>>

\* play_game: the square read is free; execute and match on the outcome.
\* On Draw or Win play_game returns to main, which prints and exits.
Play(ln) ==
    /\ Reading
    /\ from_input(ln) # Err
    /\ ~square_occupied(board, from_input(ln)[2])
    /\ \E r \in {execute(Game, player, from_input(ln)[2])} :
        /\ board' = r.board
        /\ last' = r.last
        /\ play_outcome' = r.ret
        /\ movers' = Append(movers, player)
        /\ event' = "executed"
        /\ rejects' = rejects
        /\ IF Breaks(r.ret)
           THEN /\ outcome' = GameOutcomeOf(r.ret)
                /\ pc' = "exit"
                /\ UNCHANGED <<i, player>>
           ELSE /\ i' = i + 1
                /\ player' = PlayerOfTurn(i')
                /\ outcome' = outcome
                /\ pc' = "play_game"

\* A whole game.  The input buffer is not kept.
GameInvalid == \E ln \in GameLines : Invalid(ln) /\ UNCHANGED <<line, buf>>

GameOccupied == \E ln \in GameLines : Occupied(ln) /\ UNCHANGED <<line, buf>>

GamePlay == \E ln \in GameLines : Play(ln) /\ UNCHANGED <<line, buf>>

Next == GameInvalid \/ GameOccupied \/ GamePlay

Spec == Init /\ [][Next]_vars

\* A whole game in which a line that can be played is eventually typed
FairSpec == Init /\ [][Next]_vars /\ WF_vars(GamePlay)

\* The first MaxMoves moves of a game, with the line read and from_input's
\* buffer kept, over every line of Lines.
Keep(ln) == line' = ln /\ buf' = trim(ln)

InputInvalid == \E ln \in Lines : Invalid(ln) /\ Keep(ln)

InputOccupied == \E ln \in Lines : Occupied(ln) /\ Keep(ln)

InputPlay == \E ln \in Lines : Len(movers) < MaxMoves /\ Play(ln) /\ Keep(ln)

InputNext == InputInvalid \/ InputOccupied \/ InputPlay

InputSpec == Init /\ [][InputNext]_vars

\* The scripted game of the second scenario: at each turn the player types
\* the next square of Script in some spelling, or a line that is rejected.
Script == <<"A", "B", "C", "D", "E", "F", "G", "H", "I">>

ScriptInvalid == \E ln \in Lines : Invalid(ln) /\ Keep(ln)

ScriptOccupied == \E ln \in Lines : Occupied(ln) /\ Keep(ln)

ScriptPlay ==
    \E ln \in Lines :
        /\ Len(movers) < Len(Script)
        /\ from_input(ln) = Ok(Script[Len(movers) + 1])
        /\ Play(ln)
        /\ Keep(ln)

ScriptNext == ScriptInvalid \/ ScriptOccupied \/ ScriptPlay

ScriptSpec == Init /\ [][ScriptNext]_vars

\* The engine alone: one call of execute with any player and any square, on
\* any game that calls of execute can build from new.
EngineInit ==
    /\ board \in [Square -> Player \cup {None}]
    /\ last \in IF \A sq \in Square : board[sq] = None
                THEN {None}
                ELSE {sq \in Square : board[sq] # None}
    /\ i = 0
    /\ player = PlayerOfTurn(0)
    /\ pc = "engine"
    /\ line = <<>>
    /\ buf = <<>>
    /\ play_outcome = NoOutcome
    /\ outcome = NoOutcome
    /\ event = "new"
    /\ rejects = 0
    /\ movers = <<>>

EngineExecute ==
    \E p \in Player, sq \in Square :
        /\ pc = "engine"
        /\ LET r == execute(Game, p, sq) IN
            /\ board' = r.board
            /\ last' = r.last
            /\ play_outcome' = r.ret
        /\ event' = IF board[sq] = None THEN "executed" ELSE "overwrote"
        /\ movers' = <<p>>
        /\ pc' = "returned"
        /\ UNCHANGED <<i, player, line, buf, outcome, rejects>>

EngineNext == EngineExecute

EngineSpec == EngineInit /\ [][EngineNext]_vars

----------------------------------------------------------------------------
(* The board's geometry, stated apart from WINNERS *)

IndexOf(sq) == CHOOSE k \in 1..Len(SquareOrder) : SquareOrder[k] = sq

RowOf(sq) == (IndexOf(sq) - 1) \div 3

ColOf(sq) == (IndexOf(sq) - 1) % 3

\* the 3 rows, the 3 columns and the 2 diagonals of the row-major 3x3 grid
Triples ==
    {{sq \in Square : RowOf(sq) = r} : r \in 0..2} \cup
    {{sq \in Square : ColOf(sq) = c} : c \in 0..2} \cup
    {{sq \in Square : RowOf(sq) = ColOf(sq)},
     {sq \in Square : RowOf(sq) + ColOf(sq) = 2}}

Holds(b, p) == \E t \in Triples : \A sq \in t : b[sq] = p

Full(b) == \A sq \in Square : b[sq] # None

LastMover == movers[Len(movers)]

Alternate(k) == IF k % 2 = 1 THEN "X" ELSE "O"

NonBlank(c) == c \notin Whitespace

SquareLetters == <<"a", "b", "c", "d", "e", "f", "g", "h", "i">>

\* the line consists of blanks around the one letter of sq, in either case
Names(ln, sq) ==
    LET text == SelectSeq(ln, NonBlank) IN
    /\ Len(text) = 1
    /\ text[1] \in {SquareLetters[IndexOf(sq)], sq}

Named(ln) == {sq \in Square : Names(ln, sq)}

RowText(a, b, c) ==
    <<" ", a, " ", "|", " ", b, " ", "|", " ", c, " ", "\n">>

RuleText == <<"-", "-", "-", "|", "-", "-", "-", "|", "-", "-", "-", "\n">>

FreshText ==
    RowText("a", "b", "c") \o RuleText \o
    RowText("d", "e", "f") \o RuleText \o
    RowText("g", "h", "i")

----------------------------------------------------------------------------
(* Claims *)

\* C1: in play_game, a move after which the mover's squares contain one of
\* the 8 winning triples makes execute return Win(mover), also when that
\* move fills the ninth square.
C1_WinWhenTripleCompleted ==
    (movers # <<>> /\ Holds(board, LastMover)) =>
        play_outcome = Win(LastMover)

\* the ninth move completed a triple: the board is full and the move won
C1_Witness ==
    /\ Len(movers) = 9
    /\ Full(board)
    /\ Holds(board, "X")
    /\ play_outcome = Win("X")

\* C2: execute returns Draw exactly when, after the move, all 9 squares are
\* occupied and neither player holds a winning triple.
C2_DrawIffFullAndNoTriple ==
    movers # <<>> =>
        (play_outcome = Draw <=>
            (Full(board) /\ ~Holds(board, "X") /\ ~Holds(board, "O")))

\* nine moves filled the board with no triple and the ninth returned Draw
C2_Witness ==
    /\ Len(movers) = 9
    /\ ~Holds(board, "X")
    /\ ~Holds(board, "O")
    /\ play_outcome = Draw
    /\ outcome = GameDraw

\* C3: the k-th applied move is made by X when k is odd and by O when k is
\* even, however many rejected lines lie between the applied moves.
C3_MoversAlternate ==
    /\ \A k \in 1..Len(movers) : movers[k] = Alternate(k)
    /\ Reading => player = Alternate(Len(movers) + 1)

\* a game of nine applied moves during which lines were rejected
C3_Witness ==
    /\ Len(movers) = 9
    /\ rejects >= 2
    /\ event = "executed"

\* C4: in play_game a square that holds a player holds that player in every
\* later state.
C4_OccupiedSquaresKeep ==
    [][\A sq \in Square : board[sq] # None => board'[sq] = board[sq]]_vars

\* occupied squares were asked for twice and the moves made still stand
C4_Witness ==
    /\ event = "occupied"
    /\ rejects >= 2
    /\ Cardinality({sq \in Square : board[sq] # None}) = Len(movers)
    /\ Len(movers) >= 2

\* C5 as stated: a call of execute, on any board and with any square, leaves
\* every square that held a player holding the same player.
C5_ExecuteKeepsEveryOccupiedSquare ==
    [][pc' = "returned" =>
        \A q \in Square : board[q] # None => board'[q] = board[q]]_vars

\* C5 amended: a call execute(player, square) leaves every occupied square
\* other than its square argument holding the same player, so a call on an
\* unoccupied square changes no occupied square; the square argument itself
\* is overwritten with player whatever it held.
C5_ExecuteKeepsOtherOccupiedSquares ==
    [][pc' = "returned" =>
        /\ \A q \in Square :
              (board[q] # None /\ q # last') => board'[q] = board[q]
        /\ board'[last'] = movers'[1]
        /\ (event' = "executed" =>
              \A q \in Square : board[q] # None => board'[q] = board[q])]_vars

\* execute has marked a free square on a board where the other player
\* already held squares
C5_Witness ==
    /\ pc = "returned"
    /\ event = "executed"
    /\ \E q \in Square : board[q] # None /\ board[q] # board[last]

\* C6: as soon as execute returns Win(p) or Draw, play_game stops with
\* Winner(p), p the player of the last move, or with Draw, and no further
\* move is applied; while it returns Next the game goes on.
C6_TerminalOnFirstWinOrDraw ==
    [][/\ movers' # movers =>
            /\ play_outcome'[1] = "Win" =>
                  /\ pc' = "exit"
                  /\ outcome' = Winner(play_outcome'[2])
                  /\ play_outcome'[2] = movers'[Len(movers')]
            /\ play_outcome' = Draw => (pc' = "exit" /\ outcome' = GameDraw)
            /\ play_outcome'[1] = "Next" =>
                  (pc' = "play_game" /\ outcome' = NoOutcome)
       /\ play_outcome[1] \in {"Win", "Draw"} =>
            UNCHANGED <<board, last, movers, play_outcome, outcome, pc>>]_vars

\* O completed a triple and play_game returned Winner(O)
C6_Witness ==
    /\ pc = "exit"
    /\ play_outcome = Win("O")
    /\ outcome = Winner("O")
    /\ Holds(board, "O")

\* C7: a line that names an occupied square is answered by a new prompt for
\* the same player: board, last move and turn counter are unchanged and
\* execute is not called.
C7_OccupiedConsumesNoTurn ==
    [][(\E sq \in Named(line') : board[sq] # None) =>
        /\ UNCHANGED <<board, last, i, player, movers, play_outcome, outcome>>
        /\ event' = "occupied"
        /\ pc' = "play_game"]_vars

\* O asked for the square X holds and is prompted again
C7_Witness ==
    /\ event = "occupied"
    /\ \E sq \in Named(line) : board[sq] = "X"
    /\ Len(movers) = 1
    /\ player = "O"
    /\ pc = "play_game"

\* C8: a line names a square exactly when it is blanks around one of the
\* letters a..i in either case, and then it is that letter's square that
\* is tested and played; any other line is rejected, changes neither
\* board, last move nor player, and is followed by another read.
C8_OnlySquareLettersAccepted ==
    [][/\ Named(line') = {} =>
            /\ event' = "invalid"
            /\ pc' = "from_input"
            /\ UNCHANGED <<board, last, i, player, movers, play_outcome>>
       /\ \A sq \in Named(line') :
            /\ event' # "invalid"
            /\ pc' # "from_input"
            /\ board[sq] = None =>
                  (last' = sq /\ board'[sq] = player /\ event' = "executed")
       /\ movers' # movers => last' \in Named(line')]_vars

\* after a rejected line, the padded capital E was read and square E played
C8_Witness ==
    /\ rejects >= 1
    /\ event = "executed"
    /\ line = <<" ", "E", "\n">>
    /\ buf = <<"E">>
    /\ last = "E"

\* C9 as stated: the scripted game A, B, C, D, E, F, G, ... gives neither
\* player a triple, and it ends with the ninth move returning Draw.
C9_ScriptEndsInDraw ==
    /\ ~Holds(board, "X")
    /\ ~Holds(board, "O")
    /\ pc = "exit" => (Len(movers) = 9 /\ play_outcome = Draw)

\* C9 amended: the scripted game A(X), B(O), C(X), D(O), E(X), F(O), G(X)
\* gives no player a triple during its first six moves; its seventh move
\* gives X the diagonal C-E-G, returns Win(X) and ends the game with two
\* squares free.
C9_ScriptEndsInWinAtSeven ==
    /\ Len(movers) <= 6 =>
          (~Holds(board, "X") /\ ~Holds(board, "O") /\ pc # "exit")
    /\ Len(movers) <= 7
    /\ Len(movers) = 7 =>
          /\ pc = "exit"
          /\ last = "G"
          /\ \A sq \in {"C", "E", "G"} : board[sq] = "X"
          /\ play_outcome = Win("X")
          /\ outcome = Winner("X")
          /\ board["H"] = None /\ board["I"] = None

\* the seven scripted moves have been played
C9_Witness ==
    /\ Len(movers) = 7
    /\ \A k \in 1..7 : board[Script[k]] = Alternate(k)
    /\ last = "G"
    /\ pc = "exit"

\* C10: the game returned by new has all 9 squares unoccupied and no last
\* move, and is rendered with every square as its lowercase letter and no
\* square bracketed by ':'.
C10_FreshGame ==
    movers = <<>> =>
        /\ DOMAIN board = Square
        /\ \A sq \in Square : board[sq] = None
        /\ last = None
        /\ Game_fmt(Game) = FreshText
        /\ \A k \in 1..Len(Game_fmt(Game)) : Game_fmt(Game)[k] # ":"

\* the game as constructed, before any line is read
C10_Witness ==
    /\ event = "new"
    /\ pc = "play_game"
    /\ Game = new
    /\ Game_fmt(Game) = FreshText

\* how the claims describe the rendering of square sq of game g
ShownSquare(g, sq) ==
    IF g.board[sq] = None THEN <<" ", SquareLetters[IndexOf(sq)], " ">>
    ELSE IF g.last = sq THEN <<":", g.board[sq], ":">>
    ELSE <<" ", g.board[sq], " ">>

ShownRow(g, r) ==
    ShownSquare(g, SquareOrder[3 * r + 1]) \o <<"|">> \o
    ShownSquare(g, SquareOrder[3 * r + 2]) \o <<"|">> \o
    ShownSquare(g, SquareOrder[3 * r + 3]) \o <<"\n">>

ShownText(g) ==
    ShownRow(g, 0) \o RuleText \o ShownRow(g, 1) \o RuleText \o ShownRow(g, 2)

Brackets(text) == Cardinality({k \in 1..Len(text) : text[k] = ":"})

Other(p) == IF p = "X" THEN "O" ELSE "X"

Count(b, p) == Cardinality({sq \in Square : b[sq] = p})

Occupancy(b) == Cardinality({sq \in Square : b[sq] # None})

NoTriple(b) == ~Holds(b, "X") /\ ~Holds(b, "O")

\* C12: execute returns Next(q) exactly when, after the move, no winning
\* triple is held and the board is not full, and q is then the player other
\* than the mover; every call returns exactly one of Win, Draw and Next.
C12_NextIffOpenAndOtherPlayer ==
    pc = "returned" =>
        /\ play_outcome[1] \in {"Win", "Draw", "Next"}
        /\ play_outcome[1] = "Next" <=> (NoTriple(board) /\ ~Full(board))
        /\ play_outcome[1] = "Draw" <=> (NoTriple(board) /\ Full(board))
        /\ play_outcome[1] = "Win" <=> ~NoTriple(board)
        /\ play_outcome[1] = "Next" => play_outcome = NextTurn(Other(movers[1]))
        /\ play_outcome[1] = "Win" => play_outcome = Win(movers[1])

\* O moved on a board that stays open, and the turn passes to X
C12_Witness ==
    /\ pc = "returned"
    /\ movers = <<"O">>
    /\ play_outcome = NextTurn("X")
    /\ NoTriple(board)
    /\ Occupancy(board) = 8

\* C13: in play_game, has_winner agrees with a test of the mover's squares
\* alone: whenever execute returns Win(p), p is the player who just moved
\* and holds a winning triple that contains the square just played.
C13_WinnerHoldsLineThroughLastMove ==
    movers # <<>> =>
        /\ has_winner(board) <=> Holds(board, LastMover)
        /\ play_outcome[1] = "Win" =>
              /\ play_outcome[2] = LastMover
              /\ \E t \in Triples :
                    last \in t /\ \A sq \in t : board[sq] = play_outcome[2]
              /\ ~Holds(board, Other(play_outcome[2]))

\* X won with the diagonal A-E-I by playing its middle square
C13_Witness ==
    /\ play_outcome = Win("X")
    /\ last = "E"
    /\ \A sq \in {"A", "E", "I"} : board[sq] = "X"
    /\ Count(board, "O") >= 2

\* C14: execute(player, square) changes the entry of the given square and
\* the last move only: the other 8 entries are as before the call and the
\* keys of the board stay A..I.
C14_ExecuteFrame ==
    [][pc' = "returned" =>
        /\ last' \in Square
        /\ DOMAIN board' = Square
        /\ \A q \in Square \ {last'} : board'[q] = board[q]
        /\ Cardinality({q \in Square : board'[q] # board[q]}) <= 1
        /\ UNCHANGED <<i, player, outcome>>]_vars

\* execute has replaced the player of one square among eight others
C14_Witness ==
    /\ pc = "returned"
    /\ event = "overwrote"
    /\ Occupancy(board) = 5
    /\ last = "E"

\* C15: play_game applies at most 9 moves and never waits for a line with
\* the board full; and when a line that can be played is eventually typed,
\* the game reaches Win or Draw.
C15_AtMostNineMovesAndTermination ==
    /\ [](/\ Len(movers) <= 9
          /\ Reading => ~Full(board)
          /\ play_outcome[1] = "Next" => ~Full(board))
    /\ <>(pc = "exit" /\ play_outcome[1] \in {"Win", "Draw"})

\* a game that took all nine moves has ended
C15_Witness ==
    /\ pc = "exit"
    /\ Len(movers) = 9
    /\ Full(board)
    /\ play_outcome[1] \in {"Win", "Draw"}

\* C16: at most one player holds a complete winning triple, and a player
\* who holds one is the player of the most recent move.
C16_OnlyLastMoverHoldsLine ==
    /\ ~(Holds(board, "X") /\ Holds(board, "O"))
    /\ \A p \in Player :
          Holds(board, p) => (movers # <<>> /\ p = LastMover)

\* O holds a line, X holds none, and O moved last
C16_Witness ==
    /\ Holds(board, "O")
    /\ ~Holds(board, "X")
    /\ Len(movers) = 8
    /\ LastMover = "O"

\* C17: the number of occupied squares is the number of moves applied, and
\* the X squares outnumber the O squares by 0 when X is to move and by 1
\* when O is to move, never by anything else.
C17_CountsFollowTurns ==
    /\ Occupancy(board) = Len(movers)
    /\ Count(board, "X") - Count(board, "O") \in {0, 1}
    /\ Reading =>
          Count(board, "X") - Count(board, "O") =
              IF player = "X" THEN 0 ELSE 1

\* O is prompted again after a rejected line, with 4 X and 3 O on the board
C17_Witness ==
    /\ Reading
    /\ player = "O"
    /\ event \in {"invalid", "occupied"}
    /\ Count(board, "X") = 4
    /\ Count(board, "O") = 3

\* C18: no game ends before the 5th applied move; a Draw is returned only
\* on the 9th, made by X with 5 X and 4 O squares; O ends a game only by
\* winning, on the 6th or the 8th move.
C18_WhenGamesEnd ==
    pc = "exit" =>
        /\ Len(movers) >= 5
        /\ outcome = GameDraw =>
              /\ Len(movers) = 9
              /\ LastMover = "X"
              /\ Count(board, "X") = 5
              /\ Count(board, "O") = 4
        /\ LastMover = "O" =>
              (outcome = Winner("O") /\ Len(movers) \in {6, 8})
        /\ LastMover = "X" => Len(movers) \in {5, 7, 9}

\* X ended a game with the fifth move, the earliest possible
C18_Witness ==
    /\ pc = "exit"
    /\ Len(movers) = 5
    /\ outcome = Winner("X")

\* C19: the board has an entry for each of the 9 squares in every state
\* from new on, so board.get(square) is Some for every square that
\* square_occupied can be asked about.
C19_NineEntriesAlways ==
    /\ DOMAIN board = Square
    /\ \A sq \in Square : board[sq] \in Player \cup {None}
    /\ \A ln \in GameLines :
          from_str(trim(ln)) # Err => from_str(trim(ln))[2] \in DOMAIN board

\* square_occupied has just found a square taken, after eight execute calls
C19_Witness ==
    /\ event = "occupied"
    /\ Len(movers) = 8
    /\ DOMAIN board = Square
====
